---- MODULE Spec2Model ----
(***************************************************************************)
(* Model of apps/desktop/main.js: the Electron main process that           *)
(* supervises the Python worker, forwards its output as `server-event`     *)
(* messages, dispatches commands to its stdin and owns the global toggle   *)
(* hotkey.                                                                 *)
(*                                                                         *)
(* JavaScript runs every callback to completion on one event loop, so each *)
(* listener / IPC handler is one atomic action.  Text is a sequence of     *)
(* atoms (characters for the error stream, lexical tokens for the output   *)
(* stream).  A JavaScript value is a tagged record.                        *)
(***************************************************************************)
EXTENDS Integers, Sequences, FiniteSets, TLC

(* ------------------------------ bounds -------------------------------- *)
\* BrowserWindows ever created (the first one plus re-creations on activate)
MaxWindows == 2
\* length of an error-stream chunk, in characters (SpecScraper)
MaxTextLen == 4
\* length of an output-stream chunk, in tokens (SpecReader)
MaxChunkLen == 4
MaxDepth == 1
MaxPieceLen == 2

VARIABLES
  platform,            \* process.platform: "darwin" or "other"
  appState,            \* "init" (before whenReady), "ready", "quit"
  win,                 \* main.js:5   id of the BrowserWindow held, 0 = undefined
  openWindows,         \* BrowserWindow.getAllWindows(), as ids
  nCreated,            \* BrowserWindows created so far
  loadListener,        \* id of the window whose webContents holds the once('did-finish-load') listener, 0 = none
  py,                  \* main.js:6   "unset" (undefined) or "set" (a ChildProcess)
  proc,                \* the OS process behind py: "none", "alive", "failed" (spawn refused), "exited"
  spawnCount,          \* calls of child_process.spawn so far
  pyListeners,         \* listeners attached to py and its streams
  errorPending,        \* a spawn failure whose 'error' event is still to be delivered
  running,             \* main.js:7
  registeredShortcut,  \* main.js:8   "null" or an accelerator
  lastProgress,        \* main.js:9   NoProgress (null) or a percent
  storePresent,        \* main.js:10-16  FALSE when electron-store could not be loaded (store = null)
  store,               \* the settings store: key -> value, "none" = key absent
  osBound,             \* the OS: accelerator -> handler registered by globalShortcut, kind "none" = not registered
  boundLanguage,       \* history: the language in force when the binding now recorded was made, undefined without one
  lastObs,             \* history: last `started`/`stopped` event seen on stdout, "none" at first
  exitSeen,            \* history: the 'close' listener has run and no `started` was seen since
  last,                \* history: the callback that ran in the last step, with its inputs and result
  emitted,             \* history: the webContents.send('server-event', ...) calls of the last step, in order
  writes,              \* history: the py.stdin.write(payload) calls of the last step, in order
  osCalls              \* history: the globalShortcut calls of the last step, in order

appVars == <<platform, appState, win, openWindows, nCreated, loadListener>>
pyVars == <<py, proc, spawnCount, pyListeners, errorPending>>
hotkeyVars == <<registeredShortcut, osBound>>
storeVars == <<storePresent, store>>
histVars == <<boundLanguage, lastObs, exitSeen, last, emitted, writes, osCalls>>
vars == <<appVars, pyVars, running, lastProgress, hotkeyVars, storeVars, histVars>>

(* -------------------------- JavaScript values -------------------------- *)
Undefined == [t |-> "undefined"]
Null == [t |-> "null"]
Str(s) == [t |-> "str", s |-> s]
Num(n) == [t |-> "num", n |-> n]
\* an object: f maps its own property names to values
Obj(f) == [t |-> "obj", f |-> f]
EmptyObj == Obj(<<>>)

\* v.k as JavaScript evaluates it; reading a property of null or undefined throws
Throws(v) == v.t \in {"null", "undefined"}
Get(v, k) == IF v.t = "obj" /\ k \in DOMAIN v.f THEN v.f[k] ELSE Undefined
\* v?.k
OptGet(v, k) == IF Throws(v) THEN Undefined ELSE Get(v, k)
Truthy(v) ==
  CASE v.t = "undefined" -> FALSE
    [] v.t = "null" -> FALSE
    [] v.t = "str" -> v.s /= <<>>
    [] v.t = "num" -> v.n /= 0
    [] OTHER -> TRUE

\* a string literal of the source, as text
Lit(s) == <<s>>

(* ------------------------- text: error stream -------------------------- *)
Digits == {"0", "1", "5"}
WordChars == Digits \cup {"a"}
Blank == {" "}
Chars == WordChars \cup Blank \cup {"%", "("}

IsWordAt(text, i) == i >= 1 /\ i <= Len(text) /\ text[i] \in WordChars
IsDigitAt(text, i) == i >= 1 /\ i <= Len(text) /\ text[i] \in Digits
IsCharAt(text, i, c) == i >= 1 /\ i <= Len(text) /\ text[i] = c

\* \b just before position i (1 .. Len+1)
WordBoundary(text, i) == IsWordAt(text, i - 1) /= IsWordAt(text, i)

DigitValue(c) == CASE c = "0" -> 0 [] c = "1" -> 1 [] c = "5" -> 5 [] OTHER -> 0

RECURSIVE NumberOf(_)
\* Number(m[2]) for a string of digits
NumberOf(ds) ==
  IF ds = <<>> THEN 0
  ELSE 10 * NumberOf(SubSeq(ds, 1, Len(ds) - 1)) + DigitValue(ds[Len(ds)])

\* the pattern written as [0-9]{1,3}% with no limit of 100
PctGroupAtAnyThree(text, j) ==
  IF /\ IsDigitAt(text, j) /\ IsDigitAt(text, j + 1) /\ IsDigitAt(text, j + 2)
     /\ IsCharAt(text, j + 3, "%")
    THEN SubSeq(text, j, j + 2)
  ELSE IF IsDigitAt(text, j) /\ IsDigitAt(text, j + 1) /\ IsCharAt(text, j + 2, "%")
    THEN SubSeq(text, j, j + 1)
  ELSE IF IsDigitAt(text, j) /\ IsCharAt(text, j + 1, "%")
    THEN SubSeq(text, j, j)
  ELSE <<>>

\* ([0-9]{1,2}|100)% tried at position j: the text of group 2, or <<>> when it fails.
\* [0-9]{1,2} is greedy and is tried before 100.
PctGroupAt(text, j) ==
  IF IsDigitAt(text, j) /\ IsDigitAt(text, j + 1) /\ IsCharAt(text, j + 2, "%")
    THEN SubSeq(text, j, j + 1)
  ELSE IF IsDigitAt(text, j) /\ IsCharAt(text, j + 1, "%")
    THEN SubSeq(text, j, j)
  ELSE IF /\ IsCharAt(text, j, "1") /\ IsCharAt(text, j + 1, "0")
          /\ IsCharAt(text, j + 2, "0") /\ IsCharAt(text, j + 3, "%")
    THEN SubSeq(text, j, j + 2)
  ELSE <<>>

\* (\b|\()([0-9]{1,2}|100)% tried at position i: group 2, or <<>>
PctMatchAt(text, i) ==
  IF WordBoundary(text, i) /\ PctGroupAt(text, i) /= <<>> THEN PctGroupAt(text, i)
  ELSE IF IsCharAt(text, i, "(") THEN PctGroupAt(text, i + 1)
  ELSE <<>>

\* text.match(/(\b|\()([0-9]{1,2}|100)%/): group 2 of the leftmost match, <<>> when m is null
PctMatch(text) ==
  LET hits == {i \in 1..Len(text) : PctMatchAt(text, i) /= <<>>}
  IN IF hits = {} THEN <<>>
     ELSE PctMatchAt(text, CHOOSE i \in hits : \A j \in hits : i <= j)

RECURSIVE TrimStart(_)
TrimStart(text) ==
  IF text /= <<>> /\ Head(text) \in Blank THEN TrimStart(Tail(text)) ELSE text
RECURSIVE TrimEnd(_)
TrimEnd(text) ==
  IF text /= <<>> /\ text[Len(text)] \in Blank
    THEN TrimEnd(SubSeq(text, 1, Len(text) - 1)) ELSE text
\* text.trim()
Trim(text) == TrimEnd(TrimStart(text))

(* ------------------------- text: output stream ------------------------- *)
\* The lexical tokens a chunk of the worker's stdout is made of.
LF == "<LF>"
CR == "<CR>"
OpenEvent == "{\"event\":"
CloseObj == "}"
StringTokens == {"\"started\"", "\"stopped\""}
Tokens == {OpenEvent, CloseObj, "null", "Loaded", LF, CR} \cup StringTokens

\* the string a JSON string token denotes
StringValue(tok) ==
  CASE tok = "\"started\"" -> Lit("started")
    [] tok = "\"stopped\"" -> Lit("stopped")
    [] OTHER -> Lit(tok)

RECURSIVE SplitLines(_, _)
\* data.split(/\r?\n/), cur being the piece collected so far
SplitLines(ts, cur) ==
  IF ts = <<>> THEN <<cur>>
  ELSE IF Head(ts) = LF THEN <<cur>> \o SplitLines(Tail(ts), <<>>)
  ELSE IF Head(ts) = CR /\ Len(ts) >= 2 /\ ts[2] = LF
    THEN <<cur>> \o SplitLines(Tail(Tail(ts)), <<>>)
  ELSE SplitLines(Tail(ts), Append(cur, Head(ts)))

NonEmpty(line) == line /= <<>>
\* data.toString().split(/\r?\n/).filter(Boolean)
Lines(data) == SelectSeq(SplitLines(data, <<>>), NonEmpty)

RECURSIVE SkipWs(_, _)
\* JSON whitespace: a CR that split() left inside the line
SkipWs(ts, i) == IF i <= Len(ts) /\ ts[i] = CR THEN SkipWs(ts, i + 1) ELSE i

ParseFail == [ok |-> FALSE, v |-> Undefined, next |-> 0]
RECURSIVE ParseValue(_, _)
\* one JSON value starting at token i: null, a string, or an object with the one member `event`
ParseValue(ts, i) ==
  LET j == SkipWs(ts, i) IN
  IF j > Len(ts) THEN ParseFail
  ELSE IF ts[j] = "null" THEN [ok |-> TRUE, v |-> Null, next |-> j + 1]
  ELSE IF ts[j] \in StringTokens
    THEN [ok |-> TRUE, v |-> Str(StringValue(ts[j])), next |-> j + 1]
  ELSE IF ts[j] = OpenEvent
    THEN LET r == ParseValue(ts, j + 1)
             e == SkipWs(ts, r.next)
         IN IF r.ok /\ e <= Len(ts) /\ ts[e] = CloseObj
              THEN [ok |-> TRUE, v |-> Obj([event |-> r.v]), next |-> e + 1]
              ELSE ParseFail
  ELSE ParseFail

\* JSON.parse(line): ok = FALSE when it throws a SyntaxError
JSONParse(line) ==
  LET r == ParseValue(line, 1)
  IN IF r.ok /\ SkipWs(line, r.next) > Len(line)
       THEN [ok |-> TRUE, v |-> r.v]
       ELSE [ok |-> FALSE, v |-> Undefined]

(* ------------------------------ events -------------------------------- *)
\* win?.webContents.send('server-event', ev): the calls made, none when win is undefined
Send(ev) == IF win /= 0 THEN <<ev>> ELSE <<>>

LogEvent(text) == Obj([event |-> Str(Lit("log")), data |-> Str(text)])
StderrEvent(text) == Obj([event |-> Str(Lit("stderr")), data |-> Str(text)])
ProgressEvent(pct, text) ==
  Obj([event |-> Str(Lit("progress")), percent |-> Num(pct), message |-> Str(text)])
ExitEvent(code, signal) == Obj([event |-> Str(Lit("exit")), code |-> code, signal |-> signal])
PrefEvent(name, value) == Obj([event |-> Str(Lit(name)), value |-> value])

EventName(ev) == Get(ev, "event")
IsEvent(ev, name) == EventName(ev) = Str(Lit(name))

(* ------------------------- output-stream reader ------------------------ *)
\* the loop body with an empty catch block: a line that does not parse is dropped
OnLineDropsText(line, acc) ==
  LET p == JSONParse(line)
      caught == ~p.ok \/ Throws(p.v)
      started == ~caught /\ Get(p.v, "event") = Str(Lit("started"))
      stopped == ~caught /\ Get(p.v, "event") = Str(Lit("stopped"))
  IN [running |-> IF stopped THEN FALSE ELSE IF started THEN TRUE ELSE acc.running,
      obs |-> IF stopped THEN "stopped" ELSE IF started THEN "started" ELSE acc.obs,
      sawStarted |-> acc.sawStarted \/ started,
      events |-> acc.events \o (IF caught THEN <<>> ELSE Send(p.v))]

\* the loop body forwarding only the events it knows and wrapping every other line
OnLineKnownKindsOnly(line, acc) ==
  LET p == JSONParse(line)
      caught == ~p.ok \/ Throws(p.v)
      started == ~caught /\ Get(p.v, "event") = Str(Lit("started"))
      stopped == ~caught /\ Get(p.v, "event") = Str(Lit("stopped"))
  IN [running |-> IF stopped THEN FALSE ELSE IF started THEN TRUE ELSE acc.running,
      obs |-> IF stopped THEN "stopped" ELSE IF started THEN "started" ELSE acc.obs,
      sawStarted |-> acc.sawStarted \/ started,
      events |-> acc.events \o Send(IF started \/ stopped THEN p.v ELSE LogEvent(line))]

\* The body of the for loop over one line; acc carries `running`, the history of
\* started/stopped observations and the events sent so far in this callback.
\* Both JSON.parse and the read of evt.event (on null) throw into the catch.
OnLine(line, acc) ==
  LET p == JSONParse(line)
      caught == ~p.ok \/ Throws(p.v)
      started == ~caught /\ Get(p.v, "event") = Str(Lit("started"))
      stopped == ~caught /\ Get(p.v, "event") = Str(Lit("stopped"))
  IN [running |-> IF stopped THEN FALSE ELSE IF started THEN TRUE ELSE acc.running,
      obs |-> IF stopped THEN "stopped" ELSE IF started THEN "started" ELSE acc.obs,
      sawStarted |-> acc.sawStarted \/ started,
      events |-> acc.events \o Send(IF caught THEN LogEvent(line) ELSE p.v)]

RECURSIVE ReadLines(_, _)
ReadLines(lines, acc) ==
  IF lines = <<>> THEN acc ELSE ReadLines(Tail(lines), OnLine(Head(lines), acc))

\* py.stdout.on('data', ...) applied to one chunk
StdoutOnData(data) ==
  ReadLines(Lines(data),
            [running |-> running, obs |-> lastObs, sawStarted |-> FALSE, events |-> <<>>])

(* -------------------------- error-stream scraper ----------------------- *)
NoProgress == -1

\* py.stderr.on('data', ...) applied to one chunk
StderrOnData(text) ==
  LET m == PctMatch(text)
  IN IF m /= <<>>
       THEN [lastProgress |-> NumberOf(m),
             events |-> Send(ProgressEvent(NumberOf(m), Trim(text)))]
       ELSE [lastProgress |-> lastProgress, events |-> Send(StderrEvent(text))]

(* ---------------------------- command encoding ------------------------- *)
KeyOrder == <<"cmd", "args", "language", "model_name">>

\* JSON.stringify escapes the quote, the backslash and the line ends inside a string
EscapeChar(c) ==
  CASE c = "\"" -> <<"\\", "\"">>
    [] c = "\\" -> <<"\\", "\\">>
    [] c = LF -> <<"\\", "n">>
    [] c = CR -> <<"\\", "r">>
    [] OTHER -> <<c>>
RECURSIVE Escape(_)
Escape(cs) == IF cs = <<>> THEN <<>> ELSE EscapeChar(Head(cs)) \o Escape(Tail(cs))

RECURSIVE Stringify(_)
RECURSIVE Members(_, _, _)
\* the members of object v for the keys ks, in order; a member whose value is undefined is left out
Members(v, ks, first) ==
  IF ks = <<>> THEN <<>>
  ELSE IF Head(ks) \in DOMAIN v.f /\ v.f[Head(ks)].t /= "undefined"
    THEN (IF first THEN <<>> ELSE <<",">>)
         \o <<"\"", Head(ks), "\"", ":">> \o Stringify(v.f[Head(ks)])
         \o Members(v, Tail(ks), FALSE)
  ELSE Members(v, Tail(ks), first)
\* JSON.stringify(v), as characters and words
Stringify(v) ==
  CASE v.t = "null" -> <<"null">>
    [] v.t = "str" -> <<"\"">> \o Escape(v.s) \o <<"\"">>
    [] v.t = "obj" -> <<"{">> \o Members(v, KeyOrder, TRUE) \o <<"}">>
    [] OTHER -> <<>>

\* function sendCmd(cmd, args = {}): the default applies to undefined only
ArgsOrDefault(args) == IF args.t = "undefined" THEN EmptyObj ELSE args
\* sendCmd writing the record without the line end
PayloadNoNewline(cmd, args) ==
  Stringify(Obj([cmd |-> Str(Lit(cmd)), args |-> ArgsOrDefault(args)]))
Payload(cmd, args) ==
  Stringify(Obj([cmd |-> Str(Lit(cmd)), args |-> ArgsOrDefault(args)])) \o <<LF>>

(* ------------------------------ inputs --------------------------------- *)
Accels == {Str(Lit("A")), Str(Lit("B"))}
Languages == {Str(Lit("en")), Str(Lit("de"))}
Models == {Str(Lit("tiny"))}
\* what the renderer passes to cmd:load and cmd:start
LoadArgs == {Undefined} \cup {Obj([model_name |-> m]) : m \in Models}
StartArgs == {Undefined, Null} \cup {Obj([language |-> l]) : l \in Languages}
\* outcome of py.stdin.write and of globalShortcut.register
WriteOutcomes == {"ok", "throw"}
RegisterOutcomes == {"ok", "refused", "throw"}
\* (code, signal) pairs of a 'close' event of a process that ran
ExitStatuses == {<<Num(0), Null>>, <<Num(1), Null>>, <<Null, Str(Lit("SIGTERM"))>>}
\* chunks the worker writes to stdout and stderr while the application runs
StdoutChunks ==
  { <<OpenEvent, "\"started\"", CloseObj, LF>>,
    <<OpenEvent, "\"stopped\"", CloseObj, LF>>,
    <<"Loaded", LF, OpenEvent, "null", CloseObj, CR, LF>> }
StderrChunks == { <<"(", "5", "%">>, <<"a", " ">> }

NoHandler == [kind |-> "none", language |-> Undefined]
Registered == {a \in Accels : osBound[a].kind /= "none"}

\* the record of the callback that ran
Last(op, key, cmd, args, ret, data) ==
  [op |-> op, key |-> key, cmd |-> cmd, args |-> args, ret |-> ret, data |-> data]

(* ------------------------------ the store ------------------------------ *)
\* get, set and delete of electron-store are taken to return normally, as is
\* globalShortcut.unregister of an accelerator that was registered.
\* store?.get(key)
StoreGet(key) == IF storePresent THEN store[key] ELSE Undefined
\* if (store) store.set(key, value)
StoreSet(key, value) == IF storePresent THEN [store EXCEPT ![key] = value] ELSE store
\* if (store) store.delete(key)
StoreDelete(key) == IF storePresent THEN [store EXCEPT ![key] = Undefined] ELSE store

(* ------------------------------ sendCmd -------------------------------- *)
\* sendCmd updating the run flag itself instead of waiting for the worker's event
SendCmdOptimistic(cmd, args, wr) ==
  /\ IF py = "unset"
       THEN /\ emitted' = Send(StderrEvent(Lit("Python server is not running yet.")))
            /\ writes' = <<>>
       ELSE /\ writes' = <<Payload(cmd, args)>>
            /\ emitted' = IF wr = "throw"
                            THEN Send(StderrEvent(Lit("Failed to send command: ")))
                            ELSE <<>>
  /\ running' = IF cmd = "start" THEN TRUE ELSE IF cmd = "stop" THEN FALSE ELSE running
  /\ UNCHANGED <<pyVars, lastProgress, hotkeyVars>>

\* sendCmd giving up the worker handle when the write throws
SendCmdDropsHandle(cmd, args, wr) ==
  /\ IF py = "unset"
       THEN /\ emitted' = Send(StderrEvent(Lit("Python server is not running yet.")))
            /\ writes' = <<>>
       ELSE /\ writes' = <<Payload(cmd, args)>>
            /\ emitted' = IF wr = "throw"
                            THEN Send(StderrEvent(Lit("Failed to send command: ")))
                            ELSE <<>>
  /\ py' = IF py = "set" /\ wr = "throw" THEN "unset" ELSE py
  /\ UNCHANGED <<proc, spawnCount, pyListeners, errorPending, running, lastProgress,
                 hotkeyVars>>

\* sendCmd(cmd, args) with py.stdin.write ending as wr: what it sends, what it writes
SendCmd(cmd, args, wr) ==
  /\ IF py = "unset"
       THEN /\ emitted' = Send(StderrEvent(Lit("Python server is not running yet.")))
            /\ writes' = <<>>
       ELSE /\ writes' = <<Payload(cmd, args)>>
            /\ emitted' = IF wr = "throw"
                            THEN Send(StderrEvent(Lit("Failed to send command: ")))
                            ELSE <<>>
  /\ UNCHANGED <<pyVars, running, lastProgress, hotkeyVars>>

\* write outcomes that matter: none when sendCmd returns before the write
WriteChoices == IF py = "unset" THEN {"ok"} ELSE WriteOutcomes

(* ----------------------------- startPython ----------------------------- *)
\* startPython() spawning before it looks for the interpreter
StartPythonSpawnsFirst(exists, spawned) ==
  /\ py' = "set"
  /\ proc' = IF exists /\ spawned THEN "alive" ELSE "failed"
  /\ errorPending' = ~(exists /\ spawned)
  /\ spawnCount' = spawnCount + 1
  /\ pyListeners' = IF exists THEN {"error", "stdout", "stderr", "close"} ELSE {}

\* startPython() with fs.existsSync(forcedPy) = exists and the OS creating the process or not
StartPython(exists, spawned) ==
  IF ~exists
    THEN UNCHANGED pyVars
    ELSE /\ py' = "set"
         /\ proc' = IF spawned THEN "alive" ELSE "failed"
         /\ errorPending' = ~spawned
         /\ spawnCount' = spawnCount + 1
         /\ pyListeners' = {"error", "stdout", "stderr", "close"}
StartPythonEvents(exists) ==
  IF ~exists THEN Send(StderrEvent(Lit("Required interpreter missing")))
  ELSE Send(LogEvent(Lit("Spawning Python")))

(* ---------------------------- initial state ---------------------------- *)
EmptyStore == [model |-> Undefined, language |-> Undefined, hotkey |-> Undefined]
\* what an earlier session may have left in the settings file
SavedStores ==
  [model : {Undefined},
   language : {Undefined, Str(Lit("en"))},
   hotkey : {Undefined, Str(Lit("A"))}]

Init ==
  /\ platform \in {"darwin", "other"}
  /\ appState = "init"
  /\ win = 0 /\ openWindows = {} /\ nCreated = 0 /\ loadListener = 0
  /\ py = "unset" /\ proc = "none" /\ spawnCount = 0 /\ pyListeners = {}
  /\ errorPending = FALSE
  /\ running = FALSE
  /\ registeredShortcut = Null
  /\ lastProgress = NoProgress
  /\ storePresent \in BOOLEAN
  /\ store \in (IF storePresent THEN SavedStores ELSE {EmptyStore})
  /\ osBound = [a \in Accels |-> NoHandler]
  /\ boundLanguage = Undefined
  /\ lastObs = "none" /\ exitSeen = FALSE
  /\ last = Last("init", "-", "-", Undefined, "-", <<>>)
  /\ emitted = <<>> /\ writes = <<>> /\ osCalls = <<>>

(* --------------------------- application events ------------------------ *)
\* whenReady starting the worker at once, without waiting for did-finish-load
AppReadyStartsWorker ==
  /\ appState = "init"
  /\ appState' = "ready"
  /\ nCreated' = nCreated + 1
  /\ win' = nCreated + 1
  /\ openWindows' = openWindows \cup {nCreated + 1}
  /\ loadListener' = nCreated + 1
  /\ py' = "set" /\ proc' = "alive" /\ spawnCount' = spawnCount + 1
  /\ pyListeners' = {"error", "stdout", "stderr", "close"}
  /\ last' = Last("ready", "-", "-", Undefined, "-", <<>>)
  /\ emitted' = <<>> /\ writes' = <<>> /\ osCalls' = <<>>
  /\ UNCHANGED <<boundLanguage, platform, errorPending, running, lastProgress, hotkeyVars,
                 storeVars, lastObs, exitSeen>>

\* app.whenReady().then(...): createWindow(), the once('did-finish-load') listener
AppReady ==
  /\ appState = "init"
  /\ appState' = "ready"
  /\ nCreated' = nCreated + 1
  /\ win' = nCreated + 1
  /\ openWindows' = openWindows \cup {nCreated + 1}
  /\ loadListener' = nCreated + 1
  /\ last' = Last("ready", "-", "-", Undefined, "-", <<>>)
  /\ emitted' = <<>> /\ writes' = <<>> /\ osCalls' = <<>>
  /\ UNCHANGED <<boundLanguage, platform, pyVars, running, lastProgress, hotkeyVars, storeVars,
                 lastObs, exitSeen>>

\* createWindow() re-arming the did-finish-load listener for the window it creates
AppActivateRearms ==
  /\ appState = "ready" /\ platform = "darwin"
  /\ nCreated < MaxWindows
  /\ IF openWindows = {}
       THEN /\ nCreated' = nCreated + 1
            /\ win' = nCreated + 1
            /\ openWindows' = {nCreated + 1}
            /\ loadListener' = nCreated + 1
       ELSE UNCHANGED <<win, openWindows, nCreated, loadListener>>
  /\ last' = Last("activate", "-", "-", Undefined, "-", <<>>)
  /\ emitted' = <<>> /\ writes' = <<>> /\ osCalls' = <<>>
  /\ UNCHANGED <<boundLanguage, platform, appState, pyVars, running, lastProgress,
                 hotkeyVars, storeVars, lastObs, exitSeen>>

\* app.on('activate'): a new window when none is left
AppActivate ==
  /\ appState = "ready" /\ platform = "darwin"
  /\ nCreated < MaxWindows
  /\ IF openWindows = {}
       THEN /\ nCreated' = nCreated + 1
            /\ win' = nCreated + 1
            /\ openWindows' = {nCreated + 1}
       ELSE UNCHANGED <<win, openWindows, nCreated>>
  /\ last' = Last("activate", "-", "-", Undefined, "-", <<>>)
  /\ emitted' = <<>> /\ writes' = <<>> /\ osCalls' = <<>>
  /\ UNCHANGED <<boundLanguage, platform, appState, loadListener, pyVars, running, lastProgress,
                 hotkeyVars, storeVars, lastObs, exitSeen>>

\* the user closes window w; app.on('window-all-closed') quits except on darwin
WindowClose(w) ==
  /\ appState = "ready" /\ w \in openWindows
  /\ openWindows' = openWindows \ {w}
  /\ appState' = IF openWindows = {w} /\ platform /= "darwin" THEN "quit" ELSE appState
  /\ last' = Last("window-close", "-", "-", Undefined, "-", <<>>)
  /\ emitted' = <<>> /\ writes' = <<>> /\ osCalls' = <<>>
  /\ UNCHANGED <<boundLanguage, platform, win, nCreated, loadListener, pyVars, running, lastProgress,
                 hotkeyVars, storeVars, lastObs, exitSeen>>

\* The handler a restored hotkey is bound to and the handler hotkey:set binds
RestoreHandler == [kind |-> "restore", language |-> Undefined]
SetHandler(language) == [kind |-> "set", language |-> language]

\* win.webContents.once('did-finish-load', ...) fires for window w:
\* startPython(), the pref:* echoes, the hotkey restore
DidFinishLoad(w, exists, spawned, reg) ==
  LET savedModel == StoreGet("model")
      savedLanguage == StoreGet("language")
      savedHotkey == StoreGet("hotkey")
      restore == Truthy(savedHotkey) /\ Truthy(savedLanguage)
  IN
  /\ appState = "ready" /\ w \in openWindows /\ loadListener = w
  /\ (~exists => spawned) /\ (~restore => reg = "ok")
  /\ loadListener' = 0
  /\ StartPython(exists, spawned)
  /\ emitted' = StartPythonEvents(exists)
       \o (IF Truthy(savedModel) THEN <<PrefEvent("pref:model", savedModel)>> ELSE <<>>)
       \o (IF Truthy(savedLanguage) THEN <<PrefEvent("pref:language", savedLanguage)>> ELSE <<>>)
       \o (IF Truthy(savedHotkey) THEN <<PrefEvent("pref:hotkey", savedHotkey)>> ELSE <<>>)
  /\ osCalls' = IF restore THEN <<[call |-> "register", acc |-> savedHotkey]>> ELSE <<>>
  /\ osBound' = IF restore /\ reg = "ok"
                  THEN [osBound EXCEPT ![savedHotkey] = RestoreHandler] ELSE osBound
  /\ registeredShortcut' = IF restore /\ reg = "ok" THEN savedHotkey ELSE registeredShortcut
  /\ boundLanguage' = IF restore /\ reg = "ok" THEN savedLanguage ELSE boundLanguage
  /\ last' = Last("did-finish-load", IF exists THEN "present" ELSE "missing", "-",
                  Undefined, "-", <<>>)
  /\ writes' = <<>>
  /\ UNCHANGED <<platform, appState, win, openWindows, nCreated, running, lastProgress,
                 storeVars, lastObs, exitSeen>>

(* ------------------------------ worker events -------------------------- *)
\* py.on('error'): the OS refused to create the process
PyError ==
  /\ appState = "ready" /\ "error" \in pyListeners /\ errorPending
  /\ errorPending' = FALSE
  /\ emitted' = Send(StderrEvent(Lit("Failed to spawn python: ")))
  /\ last' = Last("error", "-", "-", Undefined, "-", <<>>)
  /\ writes' = <<>> /\ osCalls' = <<>>
  /\ UNCHANGED <<boundLanguage, appVars, py, proc, spawnCount, pyListeners, running, lastProgress,
                 hotkeyVars, storeVars, lastObs, exitSeen>>

\* py.stdout.on('data') with one chunk
PyStdoutData(data) ==
  LET r == StdoutOnData(data) IN
  /\ appState = "ready" /\ "stdout" \in pyListeners /\ proc = "alive"
  /\ running' = r.running
  /\ lastObs' = r.obs
  /\ exitSeen' = (exitSeen /\ ~r.sawStarted)
  /\ emitted' = r.events
  /\ last' = Last("stdout", "-", "-", Undefined, "-", data)
  /\ writes' = <<>> /\ osCalls' = <<>>
  /\ UNCHANGED <<boundLanguage, appVars, pyVars, lastProgress, hotkeyVars, storeVars>>

\* py.stderr.on('data') with one chunk
PyStderrData(text) ==
  LET r == StderrOnData(text) IN
  /\ appState = "ready" /\ "stderr" \in pyListeners /\ proc = "alive"
  /\ lastProgress' = r.lastProgress
  /\ emitted' = r.events
  /\ last' = Last("stderr", "-", "-", Undefined, "-", text)
  /\ writes' = <<>> /\ osCalls' = <<>>
  /\ UNCHANGED <<boundLanguage, appVars, pyVars, running, hotkeyVars, storeVars, lastObs, exitSeen>>

\* py.on('close', (code, signal) => ...): the worker has terminated and its streams are closed
PyClose(code, signal) ==
  /\ appState = "ready" /\ "close" \in pyListeners
  /\ proc = "alive" \/ (proc = "failed" /\ ~errorPending)
  /\ proc' = "exited"
  /\ emitted' = Send(ExitEvent(code, signal))
  /\ exitSeen' = TRUE
  /\ last' = Last("close", "-", "-", Undefined, "-", <<>>)
  /\ writes' = <<>> /\ osCalls' = <<>>
  /\ UNCHANGED <<boundLanguage, appVars, py, spawnCount, pyListeners, errorPending, running,
                 lastProgress, hotkeyVars, storeVars, lastObs>>

(* ------------------------------ IPC handlers --------------------------- *)
\* a renderer exists to invoke the handlers
RendererUp == appState = "ready" /\ openWindows /= {}

\* ipcMain.handle('cmd:load')
CmdLoad(args, wr) ==
  /\ RendererUp
  /\ store' = IF Truthy(OptGet(args, "model_name"))
                THEN StoreSet("model", OptGet(args, "model_name")) ELSE store
  /\ SendCmd("load", args, wr)
  /\ last' = Last("cmd:load", "-", "load", args, "-", <<>>)
  /\ osCalls' = <<>>
  /\ UNCHANGED <<boundLanguage, appVars, storePresent, lastObs, exitSeen>>

\* ipcMain.handle('cmd:start')
CmdStart(args, wr) ==
  /\ RendererUp
  /\ store' = IF Truthy(OptGet(args, "language"))
                THEN StoreSet("language", OptGet(args, "language")) ELSE store
  /\ SendCmd("start", args, wr)
  /\ last' = Last("cmd:start", "-", "start", args, "-", <<>>)
  /\ osCalls' = <<>>
  /\ UNCHANGED <<boundLanguage, appVars, storePresent, lastObs, exitSeen>>

\* ipcMain.handle('cmd:stop')
CmdStop(wr) ==
  /\ RendererUp
  /\ SendCmd("stop", EmptyObj, wr)
  /\ last' = Last("cmd:stop", "-", "stop", EmptyObj, "-", <<>>)
  /\ osCalls' = <<>>
  /\ UNCHANGED <<boundLanguage, appVars, storeVars, lastObs, exitSeen>>

\* ipcMain.handle('cmd:status')
CmdStatus(wr) ==
  /\ RendererUp
  /\ SendCmd("status", EmptyObj, wr)
  /\ last' = Last("cmd:status", "-", "status", EmptyObj, "-", <<>>)
  /\ osCalls' = <<>>
  /\ UNCHANGED <<boundLanguage, appVars, storeVars, lastObs, exitSeen>>

(* -------------------------------- hotkey ------------------------------- *)
\* the globalShortcut calls at the head of hotkey:set and hotkey:clear
UnregisterCalls ==
  IF Truthy(registeredShortcut)
    THEN <<[call |-> "unregister", acc |-> registeredShortcut]>> ELSE <<>>
\* hotkey:set and hotkey:clear forgetting the binding without unregistering it
AfterUnregisterSkipped == osBound

AfterUnregister ==
  IF Truthy(registeredShortcut)
    THEN [osBound EXCEPT ![registeredShortcut] = NoHandler] ELSE osBound

\* hotkey:set unregistering the previous accelerator only once the new registration succeeded
HotkeySetKeepsOldOnFailure(accelerator, language, reg) ==
  /\ RendererUp
  /\ osCalls' = (IF reg = "ok" THEN UnregisterCalls ELSE <<>>)
                  \o <<[call |-> "register", acc |-> accelerator]>>
  /\ osBound' = IF reg = "ok"
                  THEN [AfterUnregister EXCEPT ![accelerator] = SetHandler(language)]
                  ELSE osBound
  /\ registeredShortcut' = IF reg = "ok" THEN accelerator ELSE registeredShortcut
  /\ boundLanguage' = IF reg = "ok" THEN language ELSE boundLanguage
  /\ store' = IF reg = "ok" THEN StoreSet("hotkey", accelerator) ELSE store
  /\ last' = Last("hotkey:set", reg, "-", Undefined,
                  IF reg = "ok" THEN "true" ELSE "false", <<>>)
  /\ emitted' = <<>> /\ writes' = <<>>
  /\ UNCHANGED <<appVars, pyVars, running, lastProgress, storePresent, lastObs, exitSeen>>

\* ipcMain.handle('hotkey:set') with globalShortcut.register ending as reg
HotkeySet(accelerator, language, reg) ==
  /\ RendererUp
  /\ osCalls' = UnregisterCalls \o <<[call |-> "register", acc |-> accelerator]>>
  /\ osBound' = IF reg = "ok"
                  THEN [AfterUnregister EXCEPT ![accelerator] = SetHandler(language)]
                  ELSE AfterUnregister
  /\ registeredShortcut' = IF reg = "ok" THEN accelerator ELSE Null
  /\ boundLanguage' = IF reg = "ok" THEN language ELSE Undefined
  /\ store' = IF reg = "ok" THEN StoreSet("hotkey", accelerator) ELSE store
  /\ last' = Last("hotkey:set", reg, "-", Undefined,
                  IF reg = "ok" THEN "true" ELSE "false", <<>>)
  /\ emitted' = <<>> /\ writes' = <<>>
  /\ UNCHANGED <<appVars, pyVars, running, lastProgress, storePresent, lastObs, exitSeen>>

\* hotkey:clear unregistering the accelerator but keeping it recorded as registered
HotkeyClearKeepsRecord ==
  /\ RendererUp
  /\ osCalls' = UnregisterCalls
  /\ osBound' = AfterUnregister
  /\ registeredShortcut' = registeredShortcut
  /\ boundLanguage' = Undefined
  /\ store' = StoreDelete("hotkey")
  /\ last' = Last("hotkey:clear", "-", "-", Undefined, "true", <<>>)
  /\ emitted' = <<>> /\ writes' = <<>>
  /\ UNCHANGED <<appVars, pyVars, running, lastProgress, storePresent, lastObs, exitSeen>>

\* ipcMain.handle('hotkey:clear')
HotkeyClear ==
  /\ RendererUp
  /\ osCalls' = UnregisterCalls
  /\ osBound' = AfterUnregister
  /\ registeredShortcut' = Null
  /\ boundLanguage' = Undefined
  /\ store' = StoreDelete("hotkey")
  /\ last' = Last("hotkey:clear", "-", "-", Undefined, "true", <<>>)
  /\ emitted' = <<>> /\ writes' = <<>>
  /\ UNCHANGED <<appVars, pyVars, running, lastProgress, storePresent, lastObs, exitSeen>>

\* the toggle dispatching start whatever the run flag says
HotkeyPressAlwaysStart(a, wr) ==
  /\ appState = "ready" /\ a \in Registered
  /\ LET language == IF osBound[a].kind = "set"
                       THEN osBound[a].language
                       ELSE IF Truthy(StoreGet("language"))
                              THEN StoreGet("language") ELSE Str(Lit("en"))
         args == Obj([language |-> language])
     IN /\ SendCmd("start", args, wr)
        /\ last' = Last("hotkey", osBound[a].kind, "start", args, "-", <<>>)
  /\ osCalls' = <<>>
  /\ UNCHANGED <<boundLanguage, appVars, storeVars, lastObs, exitSeen>>

\* the toggle with its test of the run flag inverted
HotkeyPressInverted(a, wr) ==
  /\ appState = "ready" /\ a \in Registered
  /\ LET language == IF osBound[a].kind = "set"
                       THEN osBound[a].language
                       ELSE IF Truthy(StoreGet("language"))
                              THEN StoreGet("language") ELSE Str(Lit("en"))
         cmd == IF ~running THEN "stop" ELSE "start"
         args == IF ~running THEN EmptyObj ELSE Obj([language |-> language])
     IN /\ SendCmd(cmd, args, wr)
        /\ last' = Last("hotkey", osBound[a].kind, cmd, args, "-", <<>>)
  /\ osCalls' = <<>>
  /\ UNCHANGED <<boundLanguage, appVars, storeVars, lastObs, exitSeen>>

\* the user presses accelerator a, which the OS has bound to one of the two closures
HotkeyPress(a, wr) ==
  /\ appState = "ready" /\ a \in Registered
  /\ LET language == IF osBound[a].kind = "set"
                       THEN osBound[a].language
                       ELSE IF Truthy(StoreGet("language"))
                              THEN StoreGet("language") ELSE Str(Lit("en"))
         cmd == IF running THEN "stop" ELSE "start"
         args == IF running THEN EmptyObj ELSE Obj([language |-> language])
     IN /\ SendCmd(cmd, args, wr)
        /\ last' = Last("hotkey", osBound[a].kind, cmd, args, "-", <<>>)
  /\ osCalls' = <<>>
  /\ UNCHANGED <<boundLanguage, appVars, storeVars, lastObs, exitSeen>>

(* ---------------------------- specification ---------------------------- *)
Next ==
  \/ AppReady
  \/ AppActivate
  \/ \E w \in 1..MaxWindows : WindowClose(w)
  \/ \E w \in 1..MaxWindows, exists \in BOOLEAN, spawned \in BOOLEAN,
        reg \in RegisterOutcomes : DidFinishLoad(w, exists, spawned, reg)
  \/ PyError
  \/ \E data \in StdoutChunks : PyStdoutData(data)
  \/ \E text \in StderrChunks : PyStderrData(text)
  \/ \E st \in ExitStatuses : PyClose(st[1], st[2])
  \/ \E args \in LoadArgs, wr \in WriteChoices : CmdLoad(args, wr)
  \/ \E args \in StartArgs, wr \in WriteChoices : CmdStart(args, wr)
  \/ \E wr \in WriteChoices : CmdStop(wr)
  \/ \E wr \in WriteChoices : CmdStatus(wr)
  \/ \E a \in Accels, l \in Languages, reg \in RegisterOutcomes : HotkeySet(a, l, reg)
  \/ HotkeyClear
  \/ \E a \in Accels, wr \in WriteChoices : HotkeyPress(a, wr)

Spec == Init /\ [][Next]_vars

(* --------------- the stream callbacks on every bounded input ----------- *)
Texts(n) == UNION {[1..k -> Chars] : k \in 0..n}
Chunks(n) == UNION {[1..k -> Tokens] : k \in 0..n}

\* The application with its worker just spawned (a state Spec reaches), the run flag
\* and the cached percent being what earlier output may have left.
InitWorkerUp ==
  /\ platform = "darwin" /\ appState = "ready"
  /\ win = 1 /\ openWindows = {1} /\ nCreated = 1 /\ loadListener = 0
  /\ py = "set" /\ proc = "alive" /\ spawnCount = 1
  /\ pyListeners = {"error", "stdout", "stderr", "close"}
  /\ errorPending = FALSE
  /\ registeredShortcut = Null
  /\ storePresent = FALSE /\ store = EmptyStore
  /\ osBound = [a \in Accels |-> NoHandler]
  /\ boundLanguage = Undefined /\ exitSeen = FALSE
  /\ last = Last("did-finish-load", "present", "-", Undefined, "-", <<>>)
  /\ emitted = Send(LogEvent(Lit("Spawning Python")))
  /\ writes = <<>> /\ osCalls = <<>>

InitScraper ==
  /\ InitWorkerUp
  /\ running = FALSE /\ lastObs = "none"
  /\ lastProgress \in {NoProgress, 5}
\* one error-stream chunk, any text of at most MaxTextLen characters
NextScraper ==
  /\ last.op = "did-finish-load"
  /\ \E text \in Texts(MaxTextLen) : PyStderrData(text)
SpecScraper == InitScraper /\ [][NextScraper]_vars

InitReader ==
  /\ InitWorkerUp
  /\ lastProgress = NoProgress
  /\ \/ running = FALSE /\ lastObs = "none"
     \/ running = TRUE /\ lastObs = "started"
     \/ running = FALSE /\ lastObs = "stopped"
\* one output-stream chunk, any sequence of at most MaxChunkLen tokens
NextReader ==
  /\ last.op = "did-finish-load"
  /\ \E data \in Chunks(MaxChunkLen) : PyStdoutData(data)
SpecReader == InitReader /\ [][NextReader]_vars

(* ------------- sendCmd on every bounded argument mapping --------------- *)
\* the values an argument mapping holds: null, text (with the characters JSON
\* escapes) and mappings nested d deep
ArgAtoms == {Null, Str(<<>>), Str(Lit("en")), Str(<<"\"">>), Str(<<"\\", LF>>)}
RECURSIVE ArgValues(_)
ArgValues(d) ==
  IF d = 0 THEN ArgAtoms
  ELSE LET vs == ArgValues(d - 1)
       IN vs \cup {EmptyObj} \cup {Obj([language |-> v]) : v \in vs}
ArgMappings(d) ==
  {Obj(f) : f \in UNION {[K -> ArgValues(d)] : K \in SUBSET {"language", "model_name"}}}

InitEncoder ==
  /\ InitWorkerUp
  /\ lastProgress = NoProgress
  /\ running = FALSE /\ lastObs = "none"
\* one command from the renderer, any argument mapping nested at most MaxDepth deep
NextEncoder ==
  /\ last.op = "did-finish-load"
  /\ \E wr \in WriteChoices :
       \/ \E args \in ArgMappings(MaxDepth) : CmdLoad(args, wr)
       \/ \E args \in ArgMappings(MaxDepth) : CmdStart(args, wr)
       \/ CmdStop(wr)
       \/ CmdStatus(wr)
SpecEncoder == InitEncoder /\ [][NextEncoder]_vars


(* ----------- the output stream delivered as successive chunks ---------- *)
\* the worker's output arrives as one 'data' event after another, each with any
\* chunk of at most MaxPieceLen tokens; a chunk may end inside a line
NextStream == \E data \in Chunks(MaxPieceLen) : PyStdoutData(data)
SpecStream == InitReader /\ [][NextStream]_vars


(* ------------- the toggle with a worker that acknowledges -------------- *)
\* the line the worker prints when it has taken up a command of the toggle
AckLine(cmd) ==
  IF cmd = "start" THEN <<OpenEvent, "\"started\"", CloseObj, LF>>
  ELSE <<OpenEvent, "\"stopped\"", CloseObj, LF>>
\* the worker acknowledges the command the last press wrote to it: the stdout
\* callback runs with that line before any other callback does
WorkerAck ==
  /\ last.op = "hotkey" /\ writes /= <<>> /\ emitted = <<>>
  /\ PyStdoutData(AckLine(last.cmd))

InitToggle ==
  /\ InitWorkerUp
  /\ lastProgress = NoProgress
  /\ running = FALSE /\ lastObs = "none"
\* hotkey calls, presses, acknowledgements and error-stream text, in any order
NextToggle ==
  \/ \E a \in Accels, l \in Languages, reg \in RegisterOutcomes : HotkeySet(a, l, reg)
  \/ HotkeyClear
  \/ \E a \in Accels, wr \in WriteChoices : HotkeyPress(a, wr)
  \/ WorkerAck
  \/ \E text \in StderrChunks : PyStderrData(text)
SpecToggle == InitToggle /\ [][NextToggle]_vars


(* ======================================================================= *)
(* Claims                                                                  *)
(* ======================================================================= *)
\* the callback of the last step called sendCmd
Dispatched == last.cmd /= "-"
\* the events of the last step that carry the given name
Named(name) == {i \in 1..Len(emitted) : IsEvent(emitted[i], name)}

\* C1: the run flag becomes true only in the stdout callback that forwards a
\* `started` event, becomes false only in one that forwards a `stopped` event or in
\* the exit callback, and no callback that calls sendCmd changes it.
C1_RunFlagFollowsWorkerEvents ==
  [][ /\ (running' /= running /\ running') =>
           (last'.op = "stdout" /\ \E i \in 1..Len(emitted') : IsEvent(emitted'[i], "started"))
      /\ (running' /= running /\ ~running') =>
           \/ last'.op = "close"
           \/ last'.op = "stdout" /\ \E i \in 1..Len(emitted') : IsEvent(emitted'[i], "stopped")
      /\ (last'.cmd /= "-") => running' = running ]_vars

\* C1 witness: the hotkey handler has written `stop` to the worker and the flag is still true
C1_Witness ==
  /\ last.op = "hotkey" /\ last.cmd = "stop" /\ writes /= <<>>
  /\ running

\* C2 (as claimed): once the exit callback has run, and until a later `started`,
\* the run flag is false.
C2_ExitForcesNotRunning == exitSeen => ~running

\* C3: at most one accelerator is registered with the OS and it is the one
\* `registeredShortcut` records; hotkey:set on an existing binding unregisters it
\* and only then registers the new accelerator.
C3_OneRegistrationAtATime ==
  /\ [](/\ Cardinality(Registered) <= 1
        /\ Registered = (IF Truthy(registeredShortcut) THEN {registeredShortcut} ELSE {}))
  /\ [][ (last'.op = "hotkey:set" /\ Registered /= {}) =>
           /\ Len(osCalls') = 2
           /\ osCalls'[1].call = "unregister" /\ osCalls'[1].acc \in Registered
           /\ osCalls'[2].call = "register" ]_vars

\* C3 witness: hotkey:set has replaced the binding restored at startup by another accelerator
C3_Witness ==
  /\ last.op = "hotkey:set" /\ last.ret = "true"
  /\ Len(osCalls) = 2 /\ osCalls[1].acc /= osCalls[2].acc
  /\ spawnCount = 1 /\ Registered = {osCalls[2].acc}

\* C4 (as claimed): sendCmd with no live worker (never started, interpreter
\* missing, or already exited) sends one stderr event and writes nothing.
C4_NoWorkerNoWrite ==
  (Dispatched /\ proc \in {"none", "exited"}) =>
     /\ writes = <<>>
     /\ Cardinality(Named("stderr")) = 1

PctCandidates(text, lengths) ==
  {c \in (1..Len(text)) \X lengths :
     /\ \A k \in 0..(c[2] - 1) : IsDigitAt(text, c[1] + k)
     /\ IsCharAt(text, c[1] + c[2], "%")
     /\ WordBoundary(text, c[1]) \/ IsCharAt(text, c[1] - 1, "(")}
FirstOf(cands) == CHOOSE c \in cands : \A d \in cands : c[1] <= d[1]
DigitsOf(text, c) == SubSeq(text, c[1], c[1] + c[2] - 1)

\* C6 (as claimed): a chunk holding one to three digits followed by `%`, of value 0..100
\* and preceded by a word boundary or `(`, yields exactly one progress event with the
\* value of the first such match and the trimmed chunk; any other chunk yields exactly
\* one stderr event with the whole chunk.
C6_ScrapesUpToThreeDigits ==
  last.op = "stderr" =>
    LET text == last.data
        cands == {c \in PctCandidates(text, 1..3) : NumberOf(DigitsOf(text, c)) <= 100}
    IN IF cands /= {}
         THEN emitted = <<ProgressEvent(NumberOf(DigitsOf(text, FirstOf(cands))), Trim(text))>>
         ELSE emitted = <<StderrEvent(text)>>

\* C6 (amended): the same with the digits being one or two digits, or exactly `100`.
C6_ScrapesTwoDigitsOrHundred ==
  last.op = "stderr" =>
    LET text == last.data
        cands == {c \in PctCandidates(text, 1..3) :
                    c[2] <= 2 \/ DigitsOf(text, c) = <<"1", "0", "0">>}
    IN IF cands /= {}
         THEN /\ emitted = <<ProgressEvent(NumberOf(DigitsOf(text, FirstOf(cands))), Trim(text))>>
              /\ lastProgress = NumberOf(DigitsOf(text, FirstOf(cands)))
         ELSE emitted = <<StderrEvent(text)>>

\* C6 witness: the chunk " (5%" gives a progress event of 5 percent with message "(5%"
C6_Witness ==
  /\ last.op = "stderr" /\ last.data = <<" ", "(", "5", "%">>
  /\ emitted = <<ProgressEvent(5, <<"(", "5", "%">>)>>

\* C7: the stdout callback sends one event per non-empty line of its chunk, in order;
\* for a line that is not valid JSON the event is a `log` event whose data is the line
\* itself, and a chunk with no valid JSON line leaves the run flag as it was.
C7_TextLineBecomesLogEvent ==
  /\ [](last.op = "stdout" =>
          LET ls == Lines(last.data)
          IN /\ Len(emitted) = Len(ls)
             /\ \A i \in 1..Len(ls) :
                  ~JSONParse(ls[i]).ok => emitted[i] = LogEvent(ls[i]))
  /\ [][ (/\ last'.op = "stdout"
          /\ \A i \in 1..Len(Lines(last'.data)) : ~JSONParse(Lines(last'.data)[i]).ok)
         => (running' = running /\ lastObs' = lastObs) ]_vars

\* C7 witness: while the run flag is true the line `Loaded` arrives, is forwarded as
\* a log event with that text, and the flag is still true
C7_Witness ==
  /\ last.op = "stdout" /\ last.data = <<"Loaded", LF>>
  /\ emitted = <<LogEvent(<<"Loaded">>)>>
  /\ running

\* C8: at most one worker process is ever spawned, and the handle is held exactly
\* when one was; neither the worker's exit nor a window created on activate spawns another.
C8_SingleWorker ==
  /\ spawnCount <= 1
  /\ (py = "set") = (spawnCount = 1)
  /\ (proc /= "none") = (spawnCount = 1)

\* C8 witness: the worker has exited, the window was closed and activate created a
\* second one, with still one spawn in all
C8_Witness ==
  /\ proc = "exited" /\ win = 2 /\ openWindows = {2}
  /\ spawnCount = 1

\* C9: when startPython finds the interpreter missing it sends exactly one stderr
\* event and no `Spawning` log event, spawns nothing, attaches no listener and leaves
\* the process handle unset.
C9_MissingInterpreterFailsFast ==
  (last.op = "did-finish-load" /\ last.key = "missing") =>
     /\ Cardinality(Named("stderr")) = 1
     /\ emitted[1] = StderrEvent(Lit("Required interpreter missing"))
     /\ Named("log") = {}
     /\ py = "unset" /\ proc = "none" /\ spawnCount = 0
     /\ pyListeners = {} /\ ~errorPending

\* C9 witness: did-finish-load has run with the interpreter missing and a saved hotkey restored
C9_Witness ==
  /\ last.op = "did-finish-load" /\ last.key = "missing"
  /\ Truthy(registeredShortcut)

\* C10: hotkey:set whose registration fails (false or an exception) returns false and
\* leaves no binding: nothing registered with the OS, `registeredShortcut` null, the
\* previous accelerator unregistered; one that succeeds returns true and leaves the new
\* accelerator as the only binding.
C10_SetSucceedsOrLeavesNoBinding ==
  last.op = "hotkey:set" =>
    LET new == osCalls[Len(osCalls)].acc IN
    /\ osCalls[Len(osCalls)].call = "register"
    /\ IF last.key \in {"refused", "throw"}
         THEN /\ last.ret = "false"
              /\ Registered = {} /\ registeredShortcut = Null
         ELSE /\ last.ret = "true"
              /\ Registered = {new} /\ registeredShortcut = new
              /\ osBound[new].kind = "set"

\* C10 witness: hotkey:set was refused by the OS after it had unregistered the previous binding
C10_Witness ==
  /\ last.op = "hotkey:set" /\ last.key = "refused" /\ last.ret = "false"
  /\ Len(osCalls) = 2 /\ osCalls[1].call = "unregister"
  /\ Registered = {}


\* decoding one line of JSON text written with the characters of Stringify
DecFail == [ok |-> FALSE, v |-> Undefined, next |-> 0]
Unescape(c) == CASE c = "n" -> LF [] c = "r" -> CR [] OTHER -> c
RECURSIVE DecString(_, _, _)
\* the string whose opening quote precedes position i
DecString(ts, i, acc) ==
  IF i > Len(ts) \/ ts[i] \in {LF, CR} THEN DecFail
  ELSE IF ts[i] = "\"" THEN [ok |-> TRUE, v |-> Str(acc), next |-> i + 1]
  ELSE IF ts[i] = "\\"
    THEN IF i + 1 <= Len(ts) /\ ts[i + 1] \in {"\"", "\\", "n", "r"}
           THEN DecString(ts, i + 2, Append(acc, Unescape(ts[i + 1])))
           ELSE DecFail
  ELSE DecString(ts, i + 1, Append(acc, ts[i]))
RECURSIVE DecValue(_, _)
RECURSIVE DecMembers(_, _, _)
\* the members of an object from position i on, f holding those read so far
DecMembers(ts, i, f) ==
  IF i > Len(ts) \/ ts[i] /= "\"" THEN DecFail
  ELSE LET k == DecString(ts, i + 1, <<>>)
       IN IF ~k.ok \/ Len(k.v.s) /= 1 \/ k.next > Len(ts) \/ ts[k.next] /= ":" THEN DecFail
          ELSE LET x == DecValue(ts, k.next + 1)
                   g == [n \in DOMAIN f \cup {k.v.s[1]} |->
                           IF n = k.v.s[1] THEN x.v ELSE f[n]]
               IN IF ~x.ok \/ x.next > Len(ts) THEN DecFail
                  ELSE IF ts[x.next] = "}" THEN [ok |-> TRUE, v |-> Obj(g), next |-> x.next + 1]
                  ELSE IF ts[x.next] = "," THEN DecMembers(ts, x.next + 1, g)
                  ELSE DecFail
DecValue(ts, i) ==
  IF i > Len(ts) THEN DecFail
  ELSE IF ts[i] = "null" THEN [ok |-> TRUE, v |-> Null, next |-> i + 1]
  ELSE IF ts[i] = "\"" THEN DecString(ts, i + 1, <<>>)
  ELSE IF ts[i] = "{"
    THEN IF i + 1 <= Len(ts) /\ ts[i + 1] = "}"
           THEN [ok |-> TRUE, v |-> EmptyObj, next |-> i + 2]
           ELSE DecMembers(ts, i + 1, <<>>)
  ELSE DecFail
\* the whole line is one value
Decode(line) ==
  LET r == DecValue(line, 1)
  IN IF r.ok /\ r.next = Len(line) + 1 THEN r ELSE DecFail

\* C11: whenever sendCmd writes for a command name and an argument mapping, it
\* writes one record; the record ends with a newline and holds no other newline;
\* the text before the newline decodes to a mapping with exactly the members cmd
\* and args, cmd being the name passed in and args the mapping passed in.
C11_PayloadRoundTrips ==
  (Dispatched /\ writes /= <<>> /\ last.args.t = "obj") =>
    /\ Len(writes) = 1
    /\ Len(writes[1]) >= 1
    /\ LET p == writes[1]
           d == Decode(SubSeq(p, 1, Len(p) - 1))
       IN /\ p[Len(p)] = LF
          /\ \A i \in 1..(Len(p) - 1) : p[i] /= LF
          /\ d.ok /\ d.v.t = "obj"
          /\ DOMAIN d.v.f = {"cmd", "args"}
          /\ d.v.f["cmd"] = Str(Lit(last.cmd))
          /\ d.v.f["args"] = last.args
\* a start command whose language holds a backslash and a newline has been written
C11_Witness ==
  /\ last.op = "cmd:start" /\ writes /= <<>>
  /\ last.args = Obj([language |-> Str(<<"\\", LF>>)])

\* everything but the record of the last step's calls
C12_State ==
  <<appVars, pyVars, running, lastProgress, hotkeyVars, storeVars, boundLanguage,
    lastObs, exitSeen>>
\* C12: every hotkey:clear reports success and leaves no binding active; with no
\* binding recorded it makes no globalShortcut call and leaves the OS table as it
\* was; with a binding recorded it unregisters that accelerator and nothing else;
\* a hotkey:clear that directly follows a hotkey:clear changes nothing.
C12_ClearIsIdempotent ==
  [][last'.op = "hotkey:clear" =>
       /\ last'.ret = "true"
       /\ registeredShortcut' = Null
       /\ Registered' = {}
       /\ ~Truthy(registeredShortcut) => (osCalls' = <<>> /\ osBound' = osBound)
       /\ Truthy(registeredShortcut) =>
            /\ osCalls' = <<[call |-> "unregister", acc |-> registeredShortcut]>>
            /\ osBound' = [osBound EXCEPT ![registeredShortcut] = NoHandler]
       /\ last.op = "hotkey:clear" => (osCalls' = <<>> /\ C12_State' = C12_State)]_vars
\* hotkey:clear has just unregistered an active binding
C12_Witness ==
  /\ last.op = "hotkey:clear" /\ last.ret = "true"
  /\ Len(osCalls) = 1 /\ osCalls[1].call = "unregister"
  /\ registeredShortcut = Null /\ Registered = {}

\* C13 (as claimed): the 'error' callback of a failed spawn reports one stderr
\* event; once it has run the supervisor holds no worker handle; a sendCmd after a
\* failed spawn reports one stderr event and writes nothing.
C13_SpawnErrorLeavesNoHandle ==
  /\ (last.op = "error" /\ win /= 0) => Cardinality(Named("stderr")) = 1
  /\ (proc = "failed" /\ ~errorPending) => py = "unset"
  /\ (Dispatched /\ proc = "failed") =>
       /\ writes = <<>>
       /\ Cardinality(Named("stderr")) = 1

\* C14: a step whose callback calls sendCmd (the four cmd:* handlers and the hotkey
\* toggle), whether the write is made, throws or is not attempted, leaves running,
\* lastProgress, registeredShortcut and the worker handle with its process as they were.
C14_SendCmdKeepsSupervisorState ==
  [][last'.cmd /= "-" =>
       UNCHANGED <<running, lastProgress, registeredShortcut, py, proc>>]_vars
\* a dispatch whose write threw, made while running, with a percent cached and a
\* hotkey registered
C14_Witness ==
  /\ Dispatched /\ writes /= <<>> /\ Cardinality(Named("stderr")) = 1
  /\ running /\ lastProgress /= NoProgress /\ Truthy(registeredShortcut)
  /\ py = "set"

\* C15 (as claimed): a dispatch makes at most one write; when the write cannot
\* reach the worker, the worker having failed to start or having exited, the
\* dispatch reports one stderr event, as it does when there is no handle.
C15_FailedWriteIsReported ==
  /\ Len(writes) <= 1
  /\ (Dispatched /\ writes /= <<>> /\ proc \in {"failed", "exited"} /\ win /= 0) =>
       Cardinality(Named("stderr")) = 1

\* C16 (as claimed): the stdout callback sends one event per non-empty line of its
\* chunk and none for an empty line; for every line that is valid JSON the event is
\* the decoded value itself, whatever the line decodes to.
C16_EveryDecodedLineForwarded ==
  last.op = "stdout" =>
    LET ls == Lines(last.data)
    IN /\ Len(emitted) = Len(ls)
       /\ \A i \in 1..Len(ls) :
            /\ ls[i] /= <<>>
            /\ JSONParse(ls[i]).ok => emitted[i] = JSONParse(ls[i]).v
\* C16 (amended): as above for every line that decodes to a value other than null,
\* whatever its `event` member is; a line that decodes to null is sent as a `log`
\* event whose data is the line itself.
C16_DecodedNonNullForwarded ==
  last.op = "stdout" =>
    LET ls == Lines(last.data)
    IN /\ Len(emitted) = Len(ls)
       /\ \A i \in 1..Len(ls) :
            LET p == JSONParse(ls[i])
            IN /\ ls[i] /= <<>>
               /\ (p.ok /\ p.v /= Null) => emitted[i] = p.v
               /\ (p.ok /\ p.v = Null) => emitted[i] = LogEvent(ls[i])
\* a chunk of an empty line and an object whose `event` is neither started nor
\* stopped has been read: one event, the object itself
C16_Witness ==
  /\ last.op = "stdout"
  /\ last.data = <<LF, OpenEvent, "null", CloseObj>>
  /\ emitted = <<Obj([event |-> Null])>>

\* the did-finish-load callback has not run yet
BeforeReady == appState = "init" \/ loadListener /= 0
\* C17: as long as did-finish-load has not fired, no worker has been spawned and
\* there is no worker handle, no callback of the worker (output, error stream,
\* error, close) has run, and every dispatch sends the one stderr event `Python
\* server is not running yet.` and writes nothing.
C17_NoWorkerBeforeReady ==
  BeforeReady =>
    /\ spawnCount = 0 /\ py = "unset" /\ proc = "none" /\ pyListeners = {}
    /\ last.op \notin {"stdout", "stderr", "error", "close"}
    /\ Dispatched =>
         /\ writes = <<>>
         /\ emitted = <<StderrEvent(Lit("Python server is not running yet."))>>
\* cmd:start has been invoked before did-finish-load fired and was answered with the
\* error event
C17_Witness ==
  /\ BeforeReady /\ last.op = "cmd:start"
  /\ writes = <<>> /\ Cardinality(Named("stderr")) = 1

\* the event the reader owes for one whole line
EventOf(line) ==
  LET p == JSONParse(line)
  IN IF p.ok /\ ~Throws(p.v) THEN p.v ELSE LogEvent(line)
\* the lines of ls that are a `started` or a `stopped` event
RunLines(ls) ==
  {i \in 1..Len(ls) : IsEvent(EventOf(ls[i]), "started") \/ IsEvent(EventOf(ls[i]), "stopped")}
\* C18 (as claimed): when the worker's output reaches the reader as two chunks, one
\* after the other, the events of the two callbacks together are the events of the
\* lines of the two chunks joined, one per non-empty line and in order, and after the
\* second callback the run flag is what the last started/stopped line says.  (Every
\* state a stdout callback leaves is also left by a first callback, so each pair of
\* successive callbacks is checked as the first two of a stream.)
C18_EventsIndependentOfChunking ==
  [][(last.op = "stdout" /\ last'.op = "stdout") =>
       LET ls == Lines(last.data \o last'.data)
           evs == emitted \o emitted'
           rl == RunLines(ls)
       IN /\ Len(evs) = Len(ls)
          /\ \A i \in 1..Len(ls) : evs[i] = EventOf(ls[i])
          /\ rl /= {} =>
               LET n == CHOOSE i \in rl : \A j \in rl : j <= i
               IN running' = IsEvent(EventOf(ls[n]), "started")]_vars

\* C19 (as claimed): with a preference store, after every hotkey:set and every
\* hotkey:clear the store holds a `hotkey` value exactly when an accelerator is
\* recorded as registered, and then the two are the same; and a did-finish-load
\* callback that echoes pref:hotkey for an accelerator has asked the OS to register
\* that accelerator, so that the echoed accelerator is bound whenever the OS accepts.
C19_StoredHotkeyAgreesWithBinding ==
  /\ (storePresent /\ last.op \in {"hotkey:set", "hotkey:clear"}) =>
       /\ Truthy(store.hotkey) <=> Truthy(registeredShortcut)
       /\ Truthy(store.hotkey) => store.hotkey = registeredShortcut
  /\ last.op = "did-finish-load" =>
       \A a \in Accels :
         (\E i \in 1..Len(emitted) : emitted[i] = PrefEvent("pref:hotkey", a)) =>
           /\ osCalls = <<[call |-> "register", acc |-> a]>>
           /\ registeredShortcut \in {a, Null}

====
